---- MODULE Spec2Model ----
(***************************************************************************)
(* Model of the event channel of src/Main.cpp: Event_<EventType_> (Send,   *)
(* Receive, Interrupt and the static State / NextReceiverIndex /           *)
(* ReceiversContainer) and Event_<EventType_>::Subscription_ (IsValid,     *)
(* Pause, Resume, Remove, ForThis).                                        *)
(*                                                                         *)
(* A receiver callback is arbitrary user code: while it runs (pc = "call")  *)
(* it may call any public operation of the channel and of any handle, and  *)
(* then returns.                                                           *)
(*                                                                         *)
(* Event_ is a class template and its statics are inline static members,   *)
(* so every EventType_ has a channel of its own.  The program variables    *)
(* describe the instantiation control is at (EventType); Other holds the   *)
(* statics, handles and Send frame of a second instantiation.  Under Spec  *)
(* the program uses one instantiation only; under SpecTwo it uses both     *)
(* (main uses UpdateEvent_ and DrawEvent_).                                *)
(*                                                                         *)
(* Send iterates with a range-for over a std::vector (Main.cpp:88), so the *)
(* begin and end iterators are taken once.  std::vector::erase and         *)
(* emplace_back invalidate them; going on iterating is undefined           *)
(* behaviour.  The model keeps the raw storage the iterators still point   *)
(* at (Spare, Freed) and makes each read of a slot that holds no live      *)
(* element a nondeterministic choice over the outcomes builds produce      *)
(* (GCC/libstdc++ -O0 and -O2 show all of them): the stale activity byte   *)
(* is read, the stale callback is invoked, or std::bad_function_call       *)
(* leaves Send.                                                            *)
(***************************************************************************)
EXTENDS Integers, Sequences, FiniteSets, TLC

\* Bound: the number of Receive calls made on the channel.
MaxReceivers == 3

\* Bound: the number of channel and handle operations the callbacks of one
\* Send make between them.
MaxSendOps == 2

\* Bounds: the number of Receive calls made on Event_<UpdateEvent_> and on
\* Event_<DrawEvent_> when the program uses both channels.
MaxUpdateReceivers == 2
MaxDrawReceivers == 1

Ids     == 1..MaxReceivers
\* Handle h >= 1 is the variable the caller stores the h-th Receive's result
\* in; handle 0 is a default-constructed handle that is never assigned.
Handles == 0..MaxReceivers

VARIABLES
    State,               \* Event_::State: "Waiting" | "Sending" | "Interrupted"
    NextReceiverIndex,   \* Event_::NextReceiverIndex
    ReceiversContainer,  \* Event_::ReceiversContainer: Seq of [State, Index]
    Capacity,            \* ReceiversContainer.capacity()
    ReceiverIndex,       \* Subscription_::ReceiverIndex of every handle
    pc,                  \* "idle": no Send executing; "loop": Send at the head
                         \* of its loop; "call": inside Receiver.Function
    It,                  \* Send's loop iterator, as a 1-based slot number
    End,                 \* Send's end iterator: the size when the loop began
    Spare,               \* slots past end() left behind by erase during the
                         \* running Send, nearest first: Seq of [State, Index]
    Freed,               \* the Index of each slot of the buffer the running
                         \* Send iterates when a reallocation has freed it;
                         \* <<>> while its iterators point into the live buffer
    SendOps,             \* operations the callbacks of the running Send have
                         \* made so far (read only by the guard that bounds them)
    EventType,           \* the EventType_ of the instantiation that the variables
                         \* above describe: the one control is at
    Other,               \* the same variables of the other instantiation
    OtherNested,         \* both instantiations have a Send executing and the
                         \* other one's was called from a callback of this one's
    \* ---- history (not read by any guard or assignment of the program) ----
    Last,                \* the last operation: [op, id, ok]
    \* The next seven describe the running Send, or the Send that has just
    \* been left; the caller's next operation forgets them.
    Outcome,             \* "none" | "running" | "completed" | "broken" | "faulted"
    Invoked,             \* ids of the callbacks it invoked, in order
    InterruptedAt,       \* Len(Invoked) when a callback's Interrupt() was
                         \* accepted (the interrupting callback is the last
                         \* of them), 0 when none was
    Before,              \* the Pause or Resume that succeeded just before it
                         \* began, if one did
    AtStart,             \* ReceiversContainer when it began
    Disturbed,           \* ids paused, resumed or removed during it before
                         \* they were invoked
    Removed,             \* ids whose Remove() succeeded
    RemovedAtStart,      \* Removed when the current / most recent Send began
    Issued               \* ids returned by Receive, in call order

prog     == <<State, NextReceiverIndex, ReceiversContainer, Capacity, ReceiverIndex>>
frame    == <<pc, It, End, Spare, Freed>>
history  == <<Last, Outcome, Invoked, InterruptedAt, Before, AtStart, Disturbed, Removed,
              RemovedAtStart, Issued>>
other    == <<EventType, Other, OtherNested>>
vars     == <<prog, frame, SendOps, other, history>>

----------------------------------------------------------------------------
\* Helpers

Range(s) == {s[i] : i \in 1..Len(s)}

IdsOf(s) == {s[i].Index : i \in 1..Len(s)}

ActiveIds(s) == {s[i].Index : i \in {j \in 1..Len(s) : s[j].State = "Active"}}

PausedIds(s) == {s[i].Index : i \in {j \in 1..Len(s) : s[j].State = "Paused"}}

Count(s, x) == Cardinality({i \in 1..Len(s) : s[i] = x})

Op(o, i, k) == [op |-> o, id |-> i, ok |-> k]

\* FindIf with a slip: the handle's id is taken as a position in the
\* container.
FindIfByPosition(id) ==
    IF id \in 1..Len(ReceiversContainer) THEN id ELSE 0

\* std::find_if over the container for Index == id (Remove), and the first
\* match of ForThis' loop: the position of the first entry, 0 for end().
FindIf(id) ==
    LET hits == {k \in 1..Len(ReceiversContainer) : ReceiversContainer[k].Index = id}
    IN  IF hits = {} THEN 0 ELSE CHOOSE k \in hits : \A j \in hits : k <= j

\* Erase with a slip: nothing is erased.
EraseNothing(s, k) == s

\* std::vector::erase(Iterator): the elements after k move down one slot.
Erase(s, k) == SubSeq(s, 1, k - 1) \o SubSeq(s, k + 1, Len(s))

\* Subscription_::IsValid
IsValid(h) == ReceiverIndex[h] # 0

----------------------------------------------------------------------------
\* Initial state: the static members' initialisers (Main.cpp:135-138) and
\* default-constructed handles (Main.cpp:229).

\* The statics, handles and Send frame of the instantiation control is at.
This ==
    [State |-> State, NextReceiverIndex |-> NextReceiverIndex,
     ReceiversContainer |-> ReceiversContainer, Capacity |-> Capacity,
     ReceiverIndex |-> ReceiverIndex, pc |-> pc, It |-> It, End |-> End,
     Spare |-> Spare, Freed |-> Freed, SendOps |-> SendOps]

Init ==
    /\ State = "Waiting"
    /\ NextReceiverIndex = 1
    /\ ReceiversContainer = <<>>
    /\ Capacity = 0
    /\ ReceiverIndex = [h \in Handles |-> 0]
    /\ pc = "idle"
    /\ It = 0
    /\ End = 0
    /\ Spare = <<>>
    /\ Freed = <<>>
    /\ SendOps = 0
    /\ EventType = "UpdateEvent_"
    /\ Other = This
    /\ OtherNested = FALSE
    /\ Last = Op("Init", 0, TRUE)
    /\ Outcome = "none"
    /\ Invoked = <<>>
    /\ InterruptedAt = 0
    /\ Before = Op("other", 0, TRUE)
    /\ AtStart = <<>>
    /\ Disturbed = {}
    /\ Removed = {}
    /\ RemovedAtStart = {}
    /\ Issued = <<>>

----------------------------------------------------------------------------
\* Event_::Send (Main.cpp:76-106)

\* The callback that is running (pc = "call"): the last one invoked.
Current == IF Invoked = <<>> THEN 0 ELSE Invoked[Len(Invoked)]

\* An operation may be called by the top-level caller at any time, and by
\* the running callback while the Send has operations left.
MayCall ==
    /\ pc \in {"idle", "call"}
    /\ pc = "call" => SendOps < MaxSendOps
    /\ SendOps' = IF pc = "call" THEN SendOps + 1 ELSE 0
    /\ UNCHANGED other

\* An operation of the top-level caller forgets the record of the Send before.
Forget ==
    /\ Outcome' = "none"
    /\ Invoked' = <<>>
    /\ InterruptedAt' = 0
    /\ Before' = Op("other", 0, TRUE)
    /\ AtStart' = <<>>
    /\ Disturbed' = {}
    /\ RemovedAtStart' = {}

\* SendRejected with a slip: State is one variable for all instantiations.
SendRejectedShared == State # "Waiting" \/ Other.State # "Waiting"

\* Main.cpp:78: the re-entrancy guard reads the State of its own
\* instantiation (Main.cpp:135).
SendRejected == State # "Waiting"

\* RejectedState with a slip: the rejected call runs the reset of line 105.
RejectedStateReset == "Waiting"

\* Main.cpp:79-84: what a rejected Send leaves in State (Assert is a no-op,
\* Main.cpp:11, then return).
RejectedState == State

\* LoopContinues with a slip: the check of line 90 is missing.
LoopContinuesAlways == TRUE

\* Main.cpp:90: the loop goes on only while State is still Sending.
LoopContinues == State = "Sending"

\* IsActive with a slip: the check of line 96 is missing.
IsActiveAlways(st) == TRUE

\* Main.cpp:96: only an Active receiver is called.
IsActive(st) == st = "Active"

\* The iterators of the running Send point into a freed buffer.
Dangling == Freed # <<>>

\* Slot i holds a live element of the container the loop may legally read.
Live(i) == ~Dangling /\ i <= Len(ReceiversContainer)

\* What `Receiver.State` (Main.cpp:96) can read at slot i: the element's
\* state; for a slot past end(), the byte erase left there; for freed
\* storage, anything.
SlotStates(i) ==
    IF Dangling THEN {"Active", "Paused"}
    ELSE IF i <= Len(ReceiversContainer) THEN {ReceiversContainer[i].State}
    ELSE {Spare[i - Len(ReceiversContainer)].State}

\* The callback `Receiver.Function` (Main.cpp:102) of slot i was built for.
SlotTarget(i) ==
    IF Dangling THEN Freed[i]
    ELSE IF i <= Len(ReceiversContainer) THEN ReceiversContainer[i].Index
    ELSE Spare[i - Len(ReceiversContainer)].Index

\* Main.cpp:78-86 and the loop's begin()/end() of line 88.  A nested call
\* finds State # Waiting and is rejected.
Send ==
    /\ MayCall
    /\ IF SendRejected
       THEN /\ State' = RejectedState
            /\ Last' = Op("Send", 0, FALSE)
            /\ IF pc = "idle"
               THEN Forget
               ELSE UNCHANGED <<Outcome, Invoked, InterruptedAt, Before, AtStart, Disturbed,
                                RemovedAtStart>>
            /\ UNCHANGED <<NextReceiverIndex, ReceiversContainer, Capacity, ReceiverIndex,
                           frame, Removed, Issued>>
       ELSE /\ pc = "idle"
            /\ State' = "Sending"
            /\ pc' = "loop"
            /\ It' = 1
            /\ End' = Len(ReceiversContainer)
            /\ Spare' = <<>>
            /\ Freed' = <<>>
            /\ Last' = Op("Send", 0, TRUE)
            /\ Outcome' = "running"
            /\ Invoked' = <<>>
            /\ InterruptedAt' = 0
            /\ Before' = IF Last.op \in {"Pause", "Resume"} /\ Last.ok
                          THEN Last
                          ELSE IF Last.op = "LoopBreak"
                               THEN Last ELSE Op("other", 0, TRUE)
            /\ AtStart' = ReceiversContainer
            /\ Disturbed' = {}
            /\ RemovedAtStart' = Removed
            /\ UNCHANGED <<NextReceiverIndex, ReceiversContainer, Capacity, ReceiverIndex,
                           Removed, Issued>>

\* Send's locals are gone when it is left.
LeaveSend ==
    /\ pc' = "idle"
    /\ It' = 0
    /\ End' = 0
    /\ Spare' = <<>>
    /\ Freed' = <<>>
    /\ UNCHANGED other

\* StateAfterSend with a slip: line 105 is missing.
StateAfterSendKept == State

\* Main.cpp:105: State = EventState_::Waiting after the loop.
StateAfterSend == "Waiting"

\* Main.cpp:88 (it == end) and 105: the loop ran to its end.
LoopEnd ==
    /\ SendOps' = 0
    /\ pc = "loop"
    /\ It = End + 1
    /\ State' = StateAfterSend
    /\ LeaveSend
    /\ Last' = Op("LoopEnd", 0, TRUE)
    /\ Outcome' = "completed"
    /\ UNCHANGED <<NextReceiverIndex, ReceiversContainer, Capacity, ReceiverIndex,
                   Invoked, InterruptedAt, Before, AtStart, Disturbed, Removed, RemovedAtStart, Issued>>

\* Main.cpp:90-94 and 105: break when the sending was interrupted.
LoopBreak ==
    /\ SendOps' = 0
    /\ pc = "loop"
    /\ It # End + 1
    /\ ~LoopContinues
    /\ State' = StateAfterSend
    /\ LeaveSend
    /\ Last' = Op("LoopBreak", 0, TRUE)
    /\ Outcome' = "broken"
    /\ UNCHANGED <<NextReceiverIndex, ReceiversContainer, Capacity, ReceiverIndex,
                   Invoked, InterruptedAt, Before, AtStart, Disturbed, Removed, RemovedAtStart, Issued>>

\* Main.cpp:96-100: continue past a receiver that is not Active.
LoopSkip ==
    /\ UNCHANGED other
    /\ SendOps' = SendOps
    /\ pc = "loop"
    /\ It # End + 1
    /\ LoopContinues
    /\ \E st \in SlotStates(It) : ~IsActive(st)
    /\ It' = It + 1
    /\ Last' = Op("Skip", SlotTarget(It), Live(It))
    /\ UNCHANGED <<prog, pc, End, Spare, Freed, Outcome, Invoked, InterruptedAt, Before, AtStart,
                   Disturbed, Removed, RemovedAtStart, Issued>>

\* Main.cpp:102: the receiver's callback is entered.  For a slot that holds
\* no live element this is the outcome where the stale std::function still
\* reaches its target.
LoopInvoke ==
    /\ UNCHANGED other
    /\ SendOps' = SendOps
    /\ pc = "loop"
    /\ It # End + 1
    /\ LoopContinues
    /\ \E st \in SlotStates(It) : IsActive(st)
    /\ pc' = "call"
    /\ Invoked' = Append(Invoked, SlotTarget(It))
    /\ Last' = Op("Invoke", SlotTarget(It), Live(It))
    /\ UNCHANGED <<prog, It, End, Spare, Freed, Outcome, InterruptedAt, Before, AtStart,
                   Disturbed, Removed, RemovedAtStart, Issued>>

\* Main.cpp:102 on a slot that holds no live element, the other outcome:
\* the std::function is empty (moved from by erase or by the reallocation)
\* and operator() throws std::bad_function_call, which leaves Send before
\* line 105; State keeps its value.
LoopFault ==
    /\ SendOps' = 0
    /\ pc = "loop"
    /\ It # End + 1
    /\ LoopContinues
    /\ ~Live(It)
    /\ \E st \in SlotStates(It) : IsActive(st)
    /\ LeaveSend
    /\ Last' = Op("Fault", SlotTarget(It), FALSE)
    /\ Outcome' = "faulted"
    /\ UNCHANGED <<prog, Invoked, InterruptedAt, Before, AtStart, Disturbed, Removed,
                   RemovedAtStart, Issued>>

\* The callback returns into the loop, which advances (++it of line 88).
Return ==
    /\ UNCHANGED other
    /\ SendOps' = SendOps
    /\ pc = "call"
    /\ pc' = "loop"
    /\ It' = It + 1
    /\ Last' = Op("Return", Current, TRUE)
    /\ UNCHANGED <<prog, End, Spare, Freed, Outcome, Invoked, InterruptedAt, Before, AtStart,
                   Disturbed, Removed, RemovedAtStart, Issued>>

----------------------------------------------------------------------------
\* Event_::Receive (Main.cpp:114-119)

\* Returned with a slip: the handle is bound to the counter's new value.
ReturnedNext(n) == n

\* Main.cpp:118: the handle returned by Receive is bound to
\* NextReceiverIndex - 1, the Index given to the new entry.
Returned(n) == n - 1

\* Bump with a slip: the increment is missing.
BumpNone(n) == n

\* Main.cpp:117: NextReceiverIndex++ (size_t: 2^64 registrations are out of
\* reach of any run, so the wrap-around is not modelled).
Bump(n) == n + 1

\* Main.cpp:117-118.  emplace_back constructs in place while
\* size() < capacity(); otherwise it reallocates to an implementation-chosen
\* larger capacity, moves the elements and frees the old buffer, which the
\* iterators of a running Send keep pointing into.  Without reallocation the
\* new element takes the first slot past end().
Receive ==
    /\ MayCall
    /\ Len(Issued) < MaxReceivers
    /\ LET id   == NextReceiverIndex
           grow == Len(ReceiversContainer) = Capacity
       IN  /\ ReceiversContainer' =
                  Append(ReceiversContainer, [State |-> "Active", Index |-> id])
           /\ NextReceiverIndex' = Bump(id)
           /\ ReceiverIndex' =
                  [ReceiverIndex EXCEPT ![Len(Issued) + 1] = Returned(NextReceiverIndex')]
           /\ IF grow
              THEN /\ \E c \in (Len(ReceiversContainer) + 1)..MaxReceivers : Capacity' = c
                   /\ Spare' = <<>>
                   /\ Freed' = IF pc = "call" /\ ~Dangling
                               THEN [i \in 1..End |-> SlotTarget(i)]
                               ELSE Freed
              ELSE /\ Capacity' = Capacity
                   /\ Spare' = IF Spare = <<>> THEN Spare ELSE Tail(Spare)
                   /\ Freed' = Freed
           /\ Last' = Op("Receive", Returned(NextReceiverIndex'), TRUE)
           /\ Issued' = Append(Issued, Returned(NextReceiverIndex'))
    /\ IF pc = "idle"
       THEN Forget
       ELSE UNCHANGED <<Outcome, Invoked, InterruptedAt, Before, AtStart, Disturbed, RemovedAtStart>>
    /\ UNCHANGED <<State, pc, It, End, Removed>>

----------------------------------------------------------------------------
\* Event_::Interrupt (Main.cpp:121-132)

\* InterruptAccepted with a slip: the check of line 123 is missing.
InterruptAcceptedAlways == TRUE

\* Main.cpp:123: the request is taken only while State is Sending.
InterruptAccepted == State = "Sending"

Interrupt ==
    /\ MayCall
    /\ IF InterruptAccepted
       THEN /\ State' = "Interrupted"
            /\ Last' = Op("Interrupt", IF pc = "call" THEN Current ELSE 0, TRUE)
       ELSE /\ State' = State
            /\ Last' = Op("Interrupt", 0, FALSE)
    /\ IF pc = "idle"
       THEN Forget
       ELSE /\ InterruptedAt' = IF InterruptAccepted THEN Len(Invoked) ELSE InterruptedAt
            /\ UNCHANGED <<Outcome, Invoked, Before, AtStart, Disturbed, RemovedAtStart>>
    /\ UNCHANGED <<NextReceiverIndex, ReceiversContainer, Capacity, ReceiverIndex, frame,
                   Removed, Issued>>

----------------------------------------------------------------------------
\* Event_::Subscription_ (Main.cpp:157-230)

\* A handle operation that changes entry id while a Send is running and has
\* not invoked it yet.
Disturb(id) ==
    IF id \notin Range(Invoked) THEN Disturbed \cup {id} ELSE Disturbed

\* ForThis with a slip: the action flips the entry's state instead of
\* setting it.
ForThisToggle(h, new) ==
    LET k == FindIf(ReceiverIndex[h])
    IN  IF k = 0
        THEN ReceiversContainer
        ELSE [ReceiversContainer EXCEPT
                 ![k].State = IF @ = "Active" THEN "Paused" ELSE "Active"]

\* Subscription_::ForThis (Main.cpp:216-226) with the action of Pause or of
\* Resume: the first entry whose Index is the handle's gets the new state.
\* The Assert of Main.cpp:175 / 186 is a no-op (Main.cpp:11), so the
\* assignment runs whatever the old state was.
ForThis(h, new) ==
    LET k == FindIf(ReceiverIndex[h])
    IN  IF k = 0
        THEN ReceiversContainer
        ELSE [ReceiversContainer EXCEPT ![k].State = new]

\* Subscription_::Pause (Main.cpp:170-179)
Pause(h) ==
    /\ MayCall
    /\ LET k == FindIf(ReceiverIndex[h])
       IN  Last' = Op("Pause", ReceiverIndex[h],
                      k # 0 /\ ReceiversContainer[k].State = "Active")
    /\ ReceiversContainer' = ForThis(h, "Paused")
    /\ IF pc = "idle"
       THEN Forget
       ELSE /\ Disturbed' = IF ReceiversContainer' # ReceiversContainer
                             THEN Disturb(ReceiverIndex[h]) ELSE Disturbed
            /\ UNCHANGED <<Outcome, Invoked, InterruptedAt, Before, AtStart, RemovedAtStart>>
    /\ UNCHANGED <<State, NextReceiverIndex, Capacity, ReceiverIndex, frame, Removed, Issued>>

\* Subscription_::Resume (Main.cpp:181-190)
Resume(h) ==
    /\ MayCall
    /\ LET k == FindIf(ReceiverIndex[h])
       IN  Last' = Op("Resume", ReceiverIndex[h],
                      k # 0 /\ ReceiversContainer[k].State = "Paused")
    /\ ReceiversContainer' = ForThis(h, "Active")
    /\ IF pc = "idle"
       THEN Forget
       ELSE /\ Disturbed' = IF ReceiversContainer' # ReceiversContainer
                             THEN Disturb(ReceiverIndex[h]) ELSE Disturbed
            /\ UNCHANGED <<Outcome, Invoked, InterruptedAt, Before, AtStart, RemovedAtStart>>
    /\ UNCHANGED <<State, NextReceiverIndex, Capacity, ReceiverIndex, frame, Removed, Issued>>

\* Unbound with a slip: line 207 is missing.
StillBound(id) == id

\* Main.cpp:207: a successful Remove unbinds the handle.
Unbound(id) == 0

\* Subscription_::Remove (Main.cpp:192-210).  erase moves the later elements
\* down and destroys the last one; its slot, now past end(), keeps the state
\* and index bytes of the element that was last, and a std::function that is
\* destroyed or moved from.  A running Send whose iterators point into this
\* buffer still reaches that slot.
Remove(h) ==
    /\ MayCall
    /\ LET id == ReceiverIndex[h]
           k  == FindIf(id)
           n  == Len(ReceiversContainer)
       IN  IF k = 0
           THEN /\ Last' = Op("Remove", id, FALSE)
                /\ IF pc = "idle"
                   THEN Forget
                   ELSE UNCHANGED <<Outcome, Invoked, InterruptedAt, Before, AtStart, Disturbed,
                                    RemovedAtStart>>
                /\ UNCHANGED <<ReceiversContainer, ReceiverIndex, Spare, Removed>>
           ELSE /\ ReceiverIndex' = [ReceiverIndex EXCEPT ![h] = Unbound(id)]
                /\ ReceiversContainer' = Erase(ReceiversContainer, k)
                /\ Spare' = IF pc = "idle" \/ Dangling
                            THEN Spare
                            ELSE <<ReceiversContainer[n]>> \o Spare
                /\ Last' = Op("Remove", id, TRUE)
                /\ IF pc = "idle"
                   THEN Forget
                   ELSE /\ Disturbed' = Disturb(id)
                        /\ UNCHANGED <<Outcome, Invoked, InterruptedAt, Before, AtStart,
                                       RemovedAtStart>>
                /\ Removed' = Removed \cup {id}
    /\ UNCHANGED <<State, NextReceiverIndex, Capacity, pc, It, End, Freed, Issued>>

----------------------------------------------------------------------------

Next ==
    \/ Send
    \/ LoopEnd
    \/ LoopBreak
    \/ LoopSkip
    \/ LoopInvoke
    \/ LoopFault
    \/ Return
    \/ Receive
    \/ Interrupt
    \/ \E h \in Handles : Pause(h)
    \/ \E h \in Handles : Resume(h)
    \/ \E h \in Handles : Remove(h)

Spec == Init /\ [][Next]_vars

----------------------------------------------------------------------------
\* Two instantiations of Event_ (Main.cpp:135-138: the inline static members
\* of a class template exist once per EventType_; a Subscription_ is a member
\* type of its Event_ and reaches that instantiation's container only).

\* User code turns to the other instantiation: the top-level caller, or the
\* callback that is running, is about to call one of its functions or comes
\* back to it.  Library code (a Send at the head of its loop) does not.  No
\* static, handle or frame of either instantiation changes.  The record of a
\* dispatch is kept for the instantiation control is at and starts afresh.
Switch ==
    /\ pc # "loop"
    /\ EventType' = IF EventType = "UpdateEvent_" THEN "DrawEvent_" ELSE "UpdateEvent_"
    /\ Other' = This
    /\ OtherNested' = (pc # "idle" /\ Other.pc # "idle" /\ ~OtherNested)
    /\ State' = Other.State
    /\ NextReceiverIndex' = Other.NextReceiverIndex
    /\ ReceiversContainer' = Other.ReceiversContainer
    /\ Capacity' = Other.Capacity
    /\ ReceiverIndex' = Other.ReceiverIndex
    /\ pc' = Other.pc
    /\ It' = Other.It
    /\ End' = Other.End
    /\ Spare' = Other.Spare
    /\ Freed' = Other.Freed
    /\ SendOps' = Other.SendOps
    /\ Last' = Op("Switch", 0, TRUE)
    /\ Outcome' = IF Other.pc = "idle" THEN "none" ELSE "running"
    /\ Invoked' = <<>>
    /\ InterruptedAt' = 0
    /\ Before' = Op("other", 0, TRUE)
    /\ AtStart' = <<>>
    /\ Disturbed' = {}
    /\ Issued' = [i \in 1..(Other.NextReceiverIndex - 1) |-> i]
    /\ Removed' = (1..(Other.NextReceiverIndex - 1)) \ IdsOf(Other.ReceiversContainer)
    /\ RemovedAtStart' = Removed'

\* A step of the instantiation control is at.  While the other
\* instantiation's Send runs inside a callback of this one's Send, that
\* callback has not returned: it only makes calls.
OnThis(A) ==
    /\ A
    /\ OtherNested => pc' = pc
    /\ Len(Issued') <= IF EventType = "UpdateEvent_"
                       THEN MaxUpdateReceivers ELSE MaxDrawReceivers

NextTwo ==
    \/ OnThis(Send)
    \/ OnThis(LoopEnd)
    \/ OnThis(LoopBreak)
    \/ OnThis(LoopSkip)
    \/ OnThis(LoopInvoke)
    \/ OnThis(LoopFault)
    \/ OnThis(Return)
    \/ OnThis(Receive)
    \/ OnThis(Interrupt)
    \/ OnThis(\E h \in Handles : Pause(h))
    \/ OnThis(\E h \in Handles : Resume(h))
    \/ OnThis(\E h \in Handles : Remove(h))
    \/ Switch

SpecTwo == Init /\ [][NextTwo]_vars

\* Types and the storage bookkeeping the slot reads rely on.
TypeOK ==
    /\ State \in {"Waiting", "Sending", "Interrupted"}
    /\ NextReceiverIndex \in 1..(MaxReceivers + 1)
    /\ \A i \in 1..Len(ReceiversContainer) :
           /\ ReceiversContainer[i].State \in {"Active", "Paused"}
           /\ ReceiversContainer[i].Index \in Ids
    /\ Len(ReceiversContainer) <= Capacity
    /\ Capacity <= MaxReceivers
    /\ ReceiverIndex \in [Handles -> 0..MaxReceivers]
    /\ pc \in {"idle", "loop", "call"}
    /\ pc # "idle" /\ ~Dangling => Len(ReceiversContainer) + Len(Spare) >= End
    /\ pc # "idle" /\ Dangling => Len(Freed) = End
    /\ pc = "idle" => It = 0 /\ End = 0 /\ Spare = <<>> /\ Freed = <<>>
    /\ SendOps \in 0..MaxSendOps
    /\ pc = "idle" => SendOps = 0
    /\ pc # "idle" => It \in 1..(End + 1)
    /\ EventType \in {"UpdateEvent_", "DrawEvent_"}
    /\ Other.State \in {"Waiting", "Sending", "Interrupted"}
    /\ Other.pc \in {"idle", "call"}
    /\ OtherNested \in BOOLEAN
    /\ OtherNested => pc = "call" /\ Other.pc = "call"

----------------------------------------------------------------------------
\* Properties

\* During the recorded Send no receiver has removed or registered an entry.
Quiet ==
    /\ Removed = RemovedAtStart
    /\ Range(Issued) \subseteq IdsOf(AtStart) \cup RemovedAtStart

\* During the recorded Send no receiver has registered an entry.
NoReceiveDuring == Range(Issued) \subseteq IdsOf(AtStart) \cup RemovedAtStart

Increasing(s) == \A i, j \in 1..Len(s) : i < j => s[i] < s[j]

\* C1: in a Send during which receivers only pause and resume (no entry is
\* removed or registered by a receiver), the receivers are invoked in
\* strictly increasing id order, each invoked receiver is a registered entry
\* that is Active at the moment it is invoked, and an entry the loop passes
\* without invoking is Paused at that moment.
C1_ActiveInOrder ==
    Outcome # "none" /\ Quiet =>
        /\ Increasing(Invoked)
        /\ Range(Invoked) \subseteq IdsOf(AtStart)
        /\ Last.op = "Invoke" =>
               /\ Live(It)
               /\ ReceiversContainer[It].Index = Last.id
               /\ ReceiversContainer[It].State = "Active"
        /\ Last.op = "Skip" =>
               /\ It - 1 <= Len(ReceiversContainer)
               /\ ReceiversContainer[It - 1].Index = Last.id
               /\ ReceiversContainer[It - 1].State = "Paused"

\* A Send has run to its end in which a receiver paused or resumed an entry
\* that was still to come, two receivers were invoked and one entry was
\* passed over.
C1_Witness ==
    /\ Outcome = "completed"
    /\ Quiet
    /\ Disturbed # {}
    /\ Len(Invoked) >= 2
    /\ Len(Invoked) < Len(ReceiversContainer)

\* C2: once a receiver's Interrupt() has been accepted, no receiver is
\* invoked after that receiver in the same Send.
C2_NothingAfterInterrupt ==
    InterruptedAt # 0 => Len(Invoked) = InterruptedAt

\* An interrupted Send was left while an Active entry that follows the
\* interrupting receiver had not been invoked.
C2_Witness ==
    /\ Outcome = "broken"
    /\ InterruptedAt # 0
    /\ \E i \in 1..Len(ReceiversContainer) :
           /\ ReceiversContainer[i].State = "Active"
           /\ ReceiversContainer[i].Index > Invoked[InterruptedAt]
           /\ ReceiversContainer[i].Index \notin Range(Invoked)

\* C3: a Send that is never interrupted and runs to its end, during which
\* receivers remove entries (and register none), has invoked exactly once
\* every entry that was registered and Active when it began, is still
\* registered, and was not paused before it was invoked.
C3_RemoveSkipsNobody ==
    Outcome = "completed" /\ InterruptedAt = 0 /\ NoReceiveDuring =>
        \A id \in (ActiveIds(AtStart) \cap IdsOf(ReceiversContainer)) \ Disturbed :
            Count(Invoked, id) = 1

\* C4: whenever no Send is executing, State is Waiting (Idle).
C4_IdleOutsideSend ==
    pc = "idle" => State = "Waiting"

\* C5: a Send called while State is not Waiting is rejected: it changes
\* neither State, the container, NextReceiverIndex nor any handle, enters no
\* receiver, and leaves the running Send's position and record as they were.
C5_NestedSendRejected ==
    [][Last'.op = "Send" /\ State # "Waiting" =>
           /\ ~Last'.ok
           /\ UNCHANGED <<prog, frame>>
           /\ pc = "call" => UNCHANGED <<Outcome, Invoked, InterruptedAt, AtStart, Disturbed>>
      ]_vars

\* A receiver's nested Send has just been rejected while entries are still
\* to be dispatched.
C5_Witness ==
    /\ Last.op = "Send"
    /\ ~Last.ok
    /\ pc = "call"
    /\ State = "Sending"
    /\ It < End

\* C6: Interrupt() called while State is not Sending changes neither State,
\* the container, NextReceiverIndex nor any handle (so a Send that follows
\* starts from the same State and list as without it).
C6_InterruptIgnored ==
    [][Last'.op = "Interrupt" /\ State # "Sending" =>
           /\ ~Last'.ok
           /\ UNCHANGED <<prog, frame>>
      ]_vars

\* Interrupt() has just been ignored outside any Send, with an Active
\* receiver registered.
C6_Witness ==
    /\ Last.op = "Interrupt"
    /\ ~Last.ok
    /\ pc = "idle"
    /\ State = "Waiting"
    /\ ActiveIds(ReceiversContainer) # {}

\* C7: the ids returned by Receive are 1, 2, 3, ... in call order, and the
\* entries of the container carry pairwise distinct (increasing) ids that
\* were all issued, none of them the id of a removed entry.
C7_Identities ==
    /\ \A i \in 1..Len(Issued) : Issued[i] = i
    /\ \A i, j \in 1..Len(ReceiversContainer) :
           i < j => ReceiversContainer[i].Index < ReceiversContainer[j].Index
    /\ IdsOf(ReceiversContainer) \subseteq Range(Issued) \ Removed

\* Receive has just issued the third id (or a later one) during a dispatch,
\* after an entry was removed.
C7_Witness ==
    /\ Last.op = "Receive"
    /\ Last.id >= 3
    /\ Removed # {}
    /\ pc = "call"

\* C8: a handle that was never assigned is invalid; the handle that took the
\* h-th Receive's result is valid exactly as long as Remove() has not
\* succeeded on it.
C8_IsValid ==
    \A h \in Handles :
        IF h = 0 \/ h > Len(Issued)
        THEN ~IsValid(h)
        ELSE IsValid(h) <=> Issued[h] \notin Removed

\* A handle is valid right after its entry was paused and resumed, while
\* another handle has been removed.
C8_Witness ==
    /\ Last.op = "Resume"
    /\ Last.ok
    /\ \E h \in Handles : ReceiverIndex[h] = Last.id /\ IsValid(h)
    /\ \E h \in 1..Len(Issued) : ~IsValid(h)

\* C9: a Send that begins right after a successful Pause() does not invoke
\* that entry, and a Send that begins right after a successful Resume(), is
\* never interrupted and runs to its end invokes that entry exactly once, in
\* id order with the others; in both cases no receiver touches that entry
\* before the loop reaches it, and no receiver registers an entry.
C9_PauseThenResume ==
    NoReceiveDuring /\ Before.id \notin Disturbed =>
        /\ Before.op = "Pause" => Before.id \notin Range(Invoked)
        /\ Before.op = "Resume" /\ Outcome = "completed" /\ InterruptedAt = 0 =>
               /\ Count(Invoked, Before.id) = 1
               /\ Increasing(Invoked)

\* C10: an entry whose Remove() succeeded is not in the container, and a
\* Send that begins after the Remove() never invokes it.
C10_RemovedNeverInvoked ==
    /\ Removed \cap IdsOf(ReceiversContainer) = {}
    /\ Outcome # "none" => RemovedAtStart \cap Range(Invoked) = {}

\* A Send that began after a Remove(), and during which a receiver made a
\* further handle operation, has run to its end and invoked a receiver.
C10_Witness ==
    /\ Outcome = "completed"
    /\ RemovedAtStart # {}
    /\ Invoked # <<>>
    /\ Disturbed # {}

\* C11: Pause() through a handle whose entry is already Paused, Resume()
\* through a handle whose entry is already Active, and Pause(), Resume() or
\* Remove() through an unbound handle change neither State, the container
\* (membership, order, activity), NextReceiverIndex nor any handle's bound
\* id, and do not disturb a running Send's position.
C11_ViolationsIgnored ==
    [][(\/ Last'.op = "Pause" /\ Last'.id \in PausedIds(ReceiversContainer)
        \/ Last'.op = "Resume" /\ Last'.id \in ActiveIds(ReceiversContainer)
        \/ Last'.op \in {"Pause", "Resume", "Remove"} /\ Last'.id = 0) =>
           /\ ~Last'.ok
           /\ UNCHANGED <<prog, frame>>
      ]_vars

\* A receiver has just called Pause() through the handle of an entry that
\* was already Paused, and that entry is still registered and Paused.
C11_Witness ==
    /\ Last.op = "Pause"
    /\ ~Last.ok
    /\ pc = "call"
    /\ Last.id \in PausedIds(ReceiversContainer)

\* C13: Pause(), Resume() and Remove() through a handle touch only the entry
\* whose Index is the handle's bound id: the other entries keep their Index,
\* state and relative order, State and NextReceiverIndex stay, every other
\* handle keeps its bound id, and only Remove() changes the handle itself.
\* Receive() leaves the existing entries and the valid handles as they were.
\* So after each of these operations every valid handle is still bound to
\* the id it was issued, and that id is the Index of a registered entry.
C13_OnlyOwnEntry ==
    [][Last'.op \in {"Pause", "Resume", "Remove", "Receive"} =>
           LET id == Last'.id
               Another(e) == e.Index # id
           IN  /\ SelectSeq(ReceiversContainer', Another) = SelectSeq(ReceiversContainer, Another)
               /\ \A h \in Handles :
                      ReceiverIndex[h] \notin {0, id} => ReceiverIndex'[h] = ReceiverIndex[h]
               /\ Last'.op \in {"Pause", "Resume"} => ReceiverIndex' = ReceiverIndex
               /\ Last'.op # "Receive" => UNCHANGED <<State, NextReceiverIndex>>
               /\ \A h \in Handles :
                      ReceiverIndex'[h] # 0 =>
                          /\ ReceiverIndex'[h] = Issued'[h]
                          /\ ReceiverIndex'[h] \in IdsOf(ReceiversContainer')
      ]_vars

\* Pause() has just succeeded on an entry that, after the removal of an
\* earlier entry, no longer sits at the position equal to its id, while
\* another entry is registered.
C13_Witness ==
    /\ Last.op = "Pause"
    /\ Last.ok
    /\ Removed # {}
    /\ FindIf(Last.id) \notin {0, Last.id}
    /\ Len(ReceiversContainer) >= 2

\* C14: Receive() succeeds whatever State is, also from inside a receiver:
\* it appends exactly one entry at the end of the container, Active and
\* with Index equal to the old NextReceiverIndex, adds one to
\* NextReceiverIndex, binds the returned handle to that id, and leaves State,
\* the existing entries and their order, and the other handles unchanged.
C14_ReceiveAppends ==
    [][Last'.op = "Receive" =>
           /\ ReceiversContainer' =
                  Append(ReceiversContainer, [State |-> "Active", Index |-> NextReceiverIndex])
           /\ NextReceiverIndex' = NextReceiverIndex + 1
           /\ Last'.ok
           /\ Last'.id = NextReceiverIndex
           /\ State' = State
           /\ \E h \in Handles :
                  /\ ReceiverIndex[h] = 0
                  /\ ReceiverIndex' = [ReceiverIndex EXCEPT ![h] = NextReceiverIndex]
      ]_vars

\* Receive() has just been called by a receiver after that receiver
\* interrupted the Send, and the new entry is the last one of the container.
C14_Witness ==
    /\ Last.op = "Receive"
    /\ pc = "call"
    /\ State = "Interrupted"
    /\ Len(ReceiversContainer) >= 2
    /\ ReceiversContainer[Len(ReceiversContainer)].Index = Last.id

\* C15: Interrupt() changes nothing but State: the container,
\* NextReceiverIndex, the handles and the running loop's position stay.  The
\* interruption does not persist: a Send that was cut short leaves State
\* Waiting, and the Send that begins right after it, when it is never
\* interrupted itself, runs to its end and its receivers remove and
\* register nothing, invokes exactly once every entry that was Active when
\* it began and was not paused before the loop reached it.
C15_InterruptDoesNotPersist ==
    [][/\ Last'.op = "Interrupt" =>
              /\ UNCHANGED <<NextReceiverIndex, ReceiversContainer, Capacity, ReceiverIndex,
                             frame>>
              /\ State' \in {State, "Interrupted"}
       /\ Outcome' = "broken" =>
              /\ InterruptedAt' # 0
              /\ pc' = "idle" /\ State' = "Waiting"
       /\ Outcome' = "completed" /\ Before'.op = "LoopBreak" /\ InterruptedAt' = 0 /\ Quiet' =>
              \A id \in ActiveIds(AtStart') \ Disturbed' : Count(Invoked', id) = 1
      ]_vars

\* The Send that began right after an interrupted Send was cut short has run
\* to its end without an interruption and has invoked two receivers.
C15_Witness ==
    /\ Before.op = "LoopBreak"
    /\ Outcome = "completed"
    /\ InterruptedAt = 0
    /\ Quiet
    /\ Len(Invoked) >= 2

\* C16: removal during iteration is safe: whenever the loop of a Send,
\* during which receivers remove entries and register none, is about to
\* examine a position, that position is at most the container's current
\* length, so the slot it reads holds a registered entry.
C16_PositionWithinList ==
    pc = "loop" /\ It # End + 1 /\ LoopContinues /\ NoReceiveDuring =>
        It <= Len(ReceiversContainer)

\* C17: within one Send no entry is invoked more than once, whatever the
\* receivers do (Receive, Pause, Resume, Remove, Interrupt, nested Send).
C17_AtMostOnce ==
    \A id \in Range(Invoked) : Count(Invoked, id) = 1

\* C18: every receiver invoked during a Send is an entry that was registered
\* when that Send began; an entry registered by a receiver is not invoked by
\* the Send in progress.
C18_OnlyRegisteredAtStart ==
    Range(Invoked) \subseteq IdsOf(AtStart)

\* C19: with one handle per entry, a handle is valid exactly when the
\* container holds exactly one entry whose Index is the handle's bound id
\* (no valid handle without its entry), and every entry of the container is
\* the entry of exactly one handle (no entry without a handle bound to it).
C19_HandlesMatchEntries ==
    /\ \A h \in Handles :
           IsValid(h) <=>
               Cardinality({k \in 1..Len(ReceiversContainer) :
                               ReceiversContainer[k].Index = ReceiverIndex[h]}) = 1
    /\ \A k \in 1..Len(ReceiversContainer) :
           Cardinality({h \in Handles :
                           ReceiverIndex[h] = ReceiversContainer[k].Index}) = 1

\* During a dispatch a receiver has just removed an entry, after an earlier
\* removal, while another entry stays registered with its handle valid.
C19_Witness ==
    /\ Last.op = "Remove"
    /\ Last.ok
    /\ pc = "call"
    /\ Cardinality(Removed) >= 2
    /\ \E h \in Handles : IsValid(h) /\ FindIf(ReceiverIndex[h]) # 0

\* C20: a Send whose receivers all return and only register entries,
\* pause or resume, interrupt or call Send (they remove nothing) comes to
\* its end with State back at Waiting, and it has invoked at most as many
\* receivers as the container held when it began.
C20_SendEndsIdle ==
    Removed = RemovedAtStart =>
        /\ pc = "idle" /\ Outcome # "none" => State = "Waiting"
        /\ Len(Invoked) <= Len(AtStart)

\* C12: the channels of two payload types share no state.  A step of one
\* channel (Send and its loop, Receive, Interrupt, Pause, Resume, Remove)
\* leaves the other channel's State, container, NextReceiverIndex, handles
\* and Send frame unchanged, and turning to the other channel changes
\* neither channel.  A Send is rejected exactly when the State of its own
\* channel is not Waiting, so a Send called from inside a receiver of the
\* other channel, while that channel is Sending, is accepted.
C12_ChannelsSeparate ==
    [][/\ EventType' = EventType => Other' = Other
       /\ EventType' # EventType => Other' = This /\ This' = Other
       /\ Last'.op = "Send" =>
              /\ Last'.ok <=> State = "Waiting"
              /\ Last'.ok => State' = "Sending" /\ pc' = "loop"
      ]_vars

\* A Send has just been accepted on one channel from inside a receiver of
\* the other channel, whose own Send is in progress, and both channels have
\* a receiver registered.
C12_Witness ==
    /\ Last.op = "Send"
    /\ Last.ok
    /\ pc = "loop"
    /\ Other.pc = "call"
    /\ Other.State = "Sending"
    /\ Len(ReceiversContainer) >= 1
    /\ Len(Other.ReceiversContainer) >= 1

====
